---- MODULE Spec2Model ----
(***************************************************************************)
(* A model of the Minsky counter machine of src/src/lib.rs: the register   *)
(* bank, the instruction store, the program counter `ptr`, and the         *)
(* operations Program::empty, Program::new, set_register, step and run.    *)
(*                                                                         *)
(* The widths of the source (u64 registers and budgets, 256 registers,     *)
(* 65,536 instruction slots) are scaled down to WordBits, NumRegs and      *)
(* NumSlots; all arithmetic keeps its width (modulo 2^WordBits).           *)
(*                                                                         *)
(* `run` is a loop: the model keeps its position (pc, step, max_steps) and *)
(* performs one pass of the loop per transition; no other operation can    *)
(* start while a call is in progress (the machine is borrowed mutably).    *)
(* A panic ends the execution: no operation is enabled afterwards.         *)
(***************************************************************************)
EXTENDS Integers, Sequences, FiniteSets, TLC

VARIABLES
    registers,        \* Program.registers : [u64; 1 << 8]
    instructions,     \* Program.instructions : [Instruction; 1 << 16]
    ptr,              \* Program.ptr : u16
    overflow_checks,  \* the build: TRUE when integer overflow panics (debug), FALSE when it wraps (release)
    pc,               \* "idle" between calls, "run" inside the loop of run
    step,             \* run's loop variable
    max_steps,        \* run's argument
    ret,              \* the value returned by the last run or get_register that returned
    panic,            \* "none", or the message of the panic that ended the execution
    op,               \* the last operation called: "new", "set_register", "get_register", "step", "run"
    args,             \* the arguments of the last call
    pre,              \* the machine (registers, instructions, ptr) on entry to the last call
    prev,             \* the call before the last one: its operation, entry state, argument and result
    nsteps,           \* the number of step() calls made by the last run
    calls,            \* the number of calls made so far
    supplied          \* the instructions given to Program::new (<<>> for Program::empty)

vars == <<registers, instructions, ptr, overflow_checks, pc, step, max_steps,
          ret, panic, op, args, pre, prev, nsteps, calls, supplied>>

----------------------------------------------------------------------------
(* Bounds of the model *)

\* registers and budgets are WordBits wide (u64 in the source)
WordBits == 17
\* the register bank holds NumRegs registers (1 << 8 in the source)
NumRegs == 5
\* the instruction store holds NumSlots slots (1 << 16 in the source)
NumSlots == 15
\* the number of calls a behaviour of Spec makes
MaxCalls == 2
\* the largest budget passed to run in Spec
MaxBudget == 3
\* the number of calls a behaviour of SpecTests makes
TestCalls == 3
\* the largest of the small arguments a and b of the test programs
MaxArg == 3

Modulus == 2 ^ WordBits
MaxWord == Modulus - 1
Words == 0 .. MaxWord
Regs == 0 .. (NumRegs - 1)
Slots == 0 .. (NumSlots - 1)

----------------------------------------------------------------------------
(* Instruction *)

Halt == [op |-> "Halt", reg |-> 0, then |-> 0, els |-> 0]
Increment(reg, target) == [op |-> "Increment", reg |-> reg, then |-> target, els |-> 0]
Decrement(reg, then, els) == [op |-> "Decrement", reg |-> reg, then |-> then, els |-> els]
Purged == [op |-> "Purged", reg |-> 0, then |-> 0, els |-> 0]

----------------------------------------------------------------------------
(* Program::empty and Program::new *)

\* the machine as a value: what the operations below read and write
Program(regs, instrs, p) == [registers |-> regs, instructions |-> instrs, ptr |-> p]

empty == Program([r \in Regs |-> 0], [i \in Slots |-> Halt], 0)

\* a copy that stops one instruction short of the supplied sequence
NewDropsLast(instrs) ==
    [empty EXCEPT !.instructions =
        [i \in Slots |-> IF i + 1 < Len(instrs) THEN instrs[i + 1] ELSE Halt]]

\* zip of the slots with the supplied sequence: the shorter of the two decides
new(instrs) ==
    [empty EXCEPT !.instructions =
        [i \in Slots |-> IF i + 1 <= Len(instrs) THEN instrs[i + 1] ELSE Halt]]

----------------------------------------------------------------------------
(* Program::step *)

\* the current state of the machine, as a value
Machine == Program(registers, instructions, ptr)

\* the instruction at the program counter
Current(m) == m.instructions[m.ptr]

\* what a call of step does: the machine it leaves, and the panic it raises if any
Outcome(m, msg) == [machine |-> m, panic |-> msg]

\* `registers[reg] += 1`: the build decides what an overflow does
AddOne(v, checks) ==
    IF v = MaxWord
    THEN IF checks THEN [value |-> v, panic |-> "attempt to add with overflow"]
                   ELSE [value |-> 0, panic |-> "none"]
    ELSE [value |-> v + 1, panic |-> "none"]

\* a subtraction that wraps instead of reporting the underflow
WrappingSub(v) == <<(v - 1) % Modulus>>

\* u64::checked_sub(1): <<v - 1>> for Some(v - 1), <<>> for None
CheckedSub(v) == IF v >= 1 THEN <<v - 1>> ELSE <<>>

\* a Halt that falls through to the next slot
StepHaltAdvance(m) == Outcome([m EXCEPT !.ptr = (m.ptr + 1) % NumSlots], "none")

StepHalt(m) == Outcome(m, "none")

\* an Increment that falls through to the next slot instead of jumping to its target
StepIncrementFallsThrough(m, reg, target, checks) ==
    LET sum == AddOne(m.registers[reg], checks) IN
    IF sum.panic # "none"
    THEN Outcome(m, sum.panic)
    ELSE Outcome([m EXCEPT !.registers[reg] = sum.value, !.ptr = (m.ptr + 1) % NumSlots], "none")

\* an Increment that takes its operands in the other order
StepIncrementOperandsSwapped(m, reg, target, checks) ==
    LET sum == AddOne(m.registers[target % NumRegs], checks) IN
    IF sum.panic # "none"
    THEN Outcome(m, sum.panic)
    ELSE Outcome([m EXCEPT !.registers[target % NumRegs] = sum.value, !.ptr = reg], "none")

\* an Increment whose jump is relative to the current slot
StepIncrementRelative(m, reg, target, checks) ==
    LET sum == AddOne(m.registers[reg], checks) IN
    IF sum.panic # "none"
    THEN Outcome(m, sum.panic)
    ELSE Outcome([m EXCEPT !.registers[reg] = sum.value, !.ptr = m.ptr + target], "none")

StepIncrement(m, reg, target, checks) ==
    LET sum == AddOne(m.registers[reg], checks) IN
    IF sum.panic # "none"
    THEN Outcome(m, sum.panic)
    ELSE Outcome([m EXCEPT !.registers[reg] = sum.value, !.ptr = target], "none")

\* a Decrement with its two branches exchanged
StepDecrementSwapped(m, reg, then, els) ==
    LET v == CheckedSub(m.registers[reg]) IN
    IF v # <<>>
    THEN Outcome([m EXCEPT !.registers[reg] = v[1], !.ptr = els], "none")
    ELSE Outcome([m EXCEPT !.ptr = then], "none")

StepDecrement(m, reg, then, els) ==
    LET v == CheckedSub(m.registers[reg]) IN
    IF v # <<>>
    THEN Outcome([m EXCEPT !.registers[reg] = v[1], !.ptr = then], "none")
    ELSE Outcome([m EXCEPT !.ptr = els], "none")

\* a Purged slot skipped like a no-op
StepPurgedIgnored(m) == Outcome(m, "none")

StepPurged(m) == Outcome(m, "Reached purged instruction")

StepResult(m, checks) ==
    LET i == Current(m) IN
    CASE i.op = "Halt" -> StepHalt(m)
      [] i.op = "Increment" -> StepIncrement(m, i.reg, i.then, checks)
      [] i.op = "Decrement" -> StepDecrement(m, i.reg, i.then, i.els)
      [] i.op = "Purged" -> StepPurged(m)

----------------------------------------------------------------------------
(* The operations, as actions *)

\* a call can start: no call is in progress and no panic has ended the execution
Idle == pc = "idle" /\ panic = "none"

\* the bookkeeping of a call's entry
Enter(name, arguments) ==
    /\ op' = name
    /\ args' = arguments
    /\ pre' = Machine
    /\ prev' = [op |-> op, args |-> args, pre |-> pre, max_steps |-> max_steps, ret |-> ret]
    /\ calls' = calls + 1
    /\ UNCHANGED supplied

\* a setter that also rewinds the program
SetRegisterResetsPtr(reg, value) ==
    /\ Idle
    /\ Enter("set_register", <<reg, value>>)
    /\ registers' = [registers EXCEPT ![reg] = value]
    /\ ptr' = 0
    /\ step' = 0 /\ max_steps' = 0 /\ ret' = 0 /\ nsteps' = 0
    /\ UNCHANGED <<instructions, overflow_checks, pc, panic>>

\* a setter that counts the registers from 1
SetRegisterOffByOne(reg, value) ==
    /\ Idle
    /\ Enter("set_register", <<reg, value>>)
    /\ registers' = [registers EXCEPT ![(reg + NumRegs - 1) % NumRegs] = value]
    /\ step' = 0 /\ max_steps' = 0 /\ ret' = 0 /\ nsteps' = 0
    /\ UNCHANGED <<instructions, ptr, overflow_checks, pc, panic>>

SetRegister(reg, value) ==
    /\ Idle
    /\ Enter("set_register", <<reg, value>>)
    /\ registers' = [registers EXCEPT ![reg] = value]
    /\ step' = 0 /\ max_steps' = 0 /\ ret' = 0 /\ nsteps' = 0
    /\ UNCHANGED <<instructions, ptr, overflow_checks, pc, panic>>

GetRegister(reg) ==
    /\ Idle
    /\ Enter("get_register", <<reg>>)
    /\ ret' = registers[reg]
    /\ step' = 0 /\ max_steps' = 0 /\ nsteps' = 0
    /\ UNCHANGED <<registers, instructions, ptr, overflow_checks, pc, panic>>

Step ==
    /\ Idle
    /\ Enter("step", <<>>)
    /\ LET s == StepResult(Machine, overflow_checks) IN
         /\ registers' = s.machine.registers
         /\ instructions' = s.machine.instructions
         /\ ptr' = s.machine.ptr
         /\ panic' = s.panic
    /\ step' = 0 /\ max_steps' = 0 /\ ret' = 0 /\ nsteps' = 0
    /\ UNCHANGED <<overflow_checks, pc>>

\* a run that starts over at slot 0 instead of resuming
RunFromStart(budget) ==
    /\ Idle
    /\ Enter("run", <<budget>>)
    /\ pc' = "run"
    /\ ptr' = 0
    /\ step' = 0 /\ max_steps' = budget /\ ret' = 0 /\ nsteps' = 0
    /\ UNCHANGED <<registers, instructions, overflow_checks, panic>>

\* run is called: the loop starts at step = 0
Run(budget) ==
    /\ Idle
    /\ Enter("run", <<budget>>)
    /\ pc' = "run"
    /\ step' = 0 /\ max_steps' = budget /\ ret' = 0 /\ nsteps' = 0
    /\ UNCHANGED <<registers, instructions, ptr, overflow_checks, panic>>

\* a test for the wrong variant
HaltedIsPurged(m) == Current(m) = Purged

\* the test of run's loop: the instruction at the program counter is Halt
Halted(m) == Current(m) = Halt

\* a loop that counts the pass that finds the machine halted
RunPassCountsHalt(m, i, max, checks) ==
    IF i = max
    THEN [machine |-> m, step |-> i, done |-> TRUE, ret |-> max, panic |-> "none", stepped |-> 0]
    ELSE IF Halted(m)
    THEN [machine |-> m, step |-> i, done |-> TRUE, ret |-> i + 1, panic |-> "none", stepped |-> 0]
    ELSE LET s == StepResult(m, checks) IN
         [machine |-> s.machine, step |-> IF s.panic = "none" THEN i + 1 ELSE i,
          done |-> FALSE, ret |-> 0, panic |-> s.panic, stepped |-> 1]

\* a loop that ends one pass before its budget is spent
RunPassStopsEarly(m, i, max, checks) ==
    IF i = max \/ i + 1 = max
    THEN [machine |-> m, step |-> i, done |-> TRUE, ret |-> max, panic |-> "none", stepped |-> 0]
    ELSE IF Halted(m)
    THEN [machine |-> m, step |-> i, done |-> TRUE, ret |-> i, panic |-> "none", stepped |-> 0]
    ELSE LET s == StepResult(m, checks) IN
         [machine |-> s.machine, step |-> IF s.panic = "none" THEN i + 1 ELSE i,
          done |-> FALSE, ret |-> 0, panic |-> s.panic, stepped |-> 1]

\* a loop that takes a Purged slot for the end of the program
RunPassStopsAtPurged(m, i, max, checks) ==
    IF i = max
    THEN [machine |-> m, step |-> i, done |-> TRUE, ret |-> max, panic |-> "none", stepped |-> 0]
    ELSE IF Halted(m) \/ Current(m) = Purged
    THEN [machine |-> m, step |-> i, done |-> TRUE, ret |-> i, panic |-> "none", stepped |-> 0]
    ELSE LET s == StepResult(m, checks) IN
         [machine |-> s.machine, step |-> IF s.panic = "none" THEN i + 1 ELSE i,
          done |-> FALSE, ret |-> 0, panic |-> s.panic, stepped |-> 1]

\* a loop that returns its budget whenever it ends
RunPassReturnsBudget(m, i, max, checks) ==
    IF i = max
    THEN [machine |-> m, step |-> i, done |-> TRUE, ret |-> max, panic |-> "none", stepped |-> 0]
    ELSE IF Halted(m)
    THEN [machine |-> m, step |-> i, done |-> TRUE, ret |-> max, panic |-> "none", stepped |-> 0]
    ELSE LET s == StepResult(m, checks) IN
         [machine |-> s.machine, step |-> IF s.panic = "none" THEN i + 1 ELSE i,
          done |-> FALSE, ret |-> 0, panic |-> s.panic, stepped |-> 1]

\* one pass of run's loop from loop variable i: the range is exhausted (return
\* max), the machine is halted (return i), or step() is called and the loop goes on
RunPass(m, i, max, checks) ==
    IF i = max
    THEN [machine |-> m, step |-> i, done |-> TRUE, ret |-> max, panic |-> "none", stepped |-> 0]
    ELSE IF Halted(m)
    THEN [machine |-> m, step |-> i, done |-> TRUE, ret |-> i, panic |-> "none", stepped |-> 0]
    ELSE LET s == StepResult(m, checks) IN
         [machine |-> s.machine, step |-> IF s.panic = "none" THEN i + 1 ELSE i,
          done |-> FALSE, ret |-> 0, panic |-> s.panic, stepped |-> 1]

RunLoop ==
    /\ pc = "run" /\ panic = "none"
    /\ LET r == RunPass(Machine, step, max_steps, overflow_checks) IN
         /\ registers' = r.machine.registers
         /\ instructions' = r.machine.instructions
         /\ ptr' = r.machine.ptr
         /\ step' = r.step
         /\ panic' = r.panic
         /\ nsteps' = nsteps + r.stepped
         /\ pc' = IF r.done THEN "idle" ELSE "run"
         /\ ret' = IF r.done THEN r.ret ELSE ret
    /\ UNCHANGED <<overflow_checks, max_steps, op, args, pre, prev, calls, supplied>>

\* a whole call of run, as a function: the passes of the loop until it returns or panics
RECURSIVE RunFrom(_, _, _, _)
RunFrom(m, i, max, checks) ==
    LET r == RunPass(m, i, max, checks) IN
    IF r.done \/ r.panic # "none" THEN r ELSE RunFrom(r.machine, r.step, max, checks)

----------------------------------------------------------------------------
(* Spec: every small program, every call sequence of MaxCalls calls *)

\* the instructions a program of Spec is made of
GenRegs == {0, 1}
GenTargets == {0, 1, 2}
Vocabulary ==
    {Halt, Purged}
      \cup {Increment(r, t) : r \in GenRegs, t \in GenTargets}
      \cup {Decrement(r, t, e) : r \in GenRegs, t \in GenTargets, e \in GenTargets}

\* the values Spec passes to set_register
GenValues == {0, 1, MaxWord}

Constructed(m, given) ==
    /\ registers = m.registers
    /\ instructions = m.instructions
    /\ ptr = m.ptr
    /\ overflow_checks \in BOOLEAN
    /\ pc = "idle" /\ step = 0 /\ max_steps = 0 /\ ret = 0 /\ panic = "none"
    /\ op = "new"
    /\ args = <<>>
    /\ pre = m
    /\ prev = [op |-> "none", args |-> <<>>, pre |-> m, max_steps |-> 0, ret |-> 0]
    /\ nsteps = 0
    /\ calls = 0
    /\ supplied = given

Init == \E a \in Vocabulary, b \in Vocabulary : Constructed(new(<<a, b>>), <<a, b>>)

Next ==
    \/ calls < MaxCalls /\ \E reg \in GenRegs, value \in GenValues : SetRegister(reg, value)
    \/ calls < MaxCalls /\ Step
    \/ calls < MaxCalls /\ \E budget \in 0 .. MaxBudget : Run(budget)
    \/ RunLoop

Spec == Init /\ [][Next]_vars

----------------------------------------------------------------------------
(* SpecTests: the programs of the tests, with the tests' arguments and small ones *)

\* tests::substract: $0 = $0 - $1
Subtract ==
    << Decrement(1, 1, 2), Increment(2, 0),
       Decrement(2, 3, 5), Increment(1, 4), Decrement(0, 2, 2),
       Halt >>

\* tests::add: $0 = $0 + $1
Add ==
    << Decrement(1, 1, 2), Increment(2, 0),
       Decrement(2, 3, 5), Increment(1, 4), Increment(0, 2),
       Halt >>

\* tests::multiply: $0 = $0 * $1
Multiply ==
    << Decrement(1, 1, 2), Increment(2, 0),
       Decrement(0, 3, 4), Increment(3, 2),
       Decrement(2, 5, 14), Increment(1, 6),
       Decrement(3, 7, 9), Increment(0, 8), Increment(4, 6),
       Decrement(2, 10, 14), Increment(1, 11),
       Decrement(4, 12, 4), Increment(0, 13), Increment(3, 11),
       Halt >>

\* the tests set $0 to 98 and $1 to 81; the model also sets them to 0 .. MaxArg
TestArgs ==
    {<<0, a>> : a \in (0 .. MaxArg) \cup {98}}
      \cup {<<1, b>> : b \in (0 .. MaxArg) \cup {81}}

\* the budgets of the tests: u64::MAX (here MaxWord) and 100000; and 1
TestBudgets == {1, 100000, MaxWord}

InitTests ==
    \E given \in {<<>>, Subtract, Add, Multiply} :
        Constructed(IF given = <<>> THEN empty ELSE new(given), given)

NextTests ==
    \/ calls < TestCalls /\ \E arg \in TestArgs : SetRegister(arg[1], arg[2])
    \/ calls < TestCalls /\ \E budget \in TestBudgets : Run(budget)
    \/ RunLoop

SpecTests == InitTests /\ [][NextTests]_vars

----------------------------------------------------------------------------
(* SpecNew: Program::new on sequences shorter and longer than the store *)

\* instructions that name the last register and the last slot
EdgeVocabulary ==
    {Halt, Purged, Increment(NumRegs - 1, NumSlots - 1), Decrement(NumRegs - 1, 0, NumSlots - 1)}

\* the supplied sequences: up to two instructions more than the store holds,
\* all of them y but the k-th, which is x
Sequences ==
    {[i \in 1 .. L |-> IF i = k THEN x ELSE y] :
        L \in 0 .. (NumSlots + 2), k \in 1 .. (NumSlots + 2),
        x \in EdgeVocabulary, y \in EdgeVocabulary}

InitNew == \E given \in Sequences : Constructed(new(given), given)

NextNew ==
    \/ calls < MaxCalls /\ \E value \in {1, MaxWord} : SetRegister(NumRegs - 1, value)
    \/ calls < MaxCalls /\ Step
    \/ calls < MaxCalls /\ Run(MaxBudget)
    \/ RunLoop

SpecNew == InitNew /\ [][NextNew]_vars

----------------------------------------------------------------------------
(* SpecRegs: set_register and get_register on every register *)

InitRegs == \E a \in Vocabulary : Constructed(new(<<a>>), <<a>>)

NextRegs ==
    \/ calls < MaxCalls /\ \E reg \in Regs, value \in GenValues : SetRegister(reg, value)
    \/ calls < MaxCalls /\ \E reg \in Regs : GetRegister(reg)
    \/ calls < MaxCalls /\ Step

SpecRegs == InitRegs /\ [][NextRegs]_vars

----------------------------------------------------------------------------
(* Properties of step *)

\* a call of step has ended (returned or panicked): `pre` is the machine it was called on
StepCalled == op = "step" /\ pc = "idle"

\* C1: a step on Decrement(r, then, els) with register r > 0 leaves r one smaller
\* and the program counter at then; with r = 0 it leaves r at 0 and the program
\* counter at els; it never panics, and no register ever leaves 0 .. MaxWord, so
\* a Decrement repeated on a zero register takes the else-branch every time.
C1_DecrementBranches ==
    /\ \A r \in Regs : registers[r] \in Words
    /\ (StepCalled /\ Current(pre).op = "Decrement") =>
         LET i == Current(pre)
             v == pre.registers[i.reg]
         IN  /\ panic = "none"
             /\ IF v > 0
                THEN registers[i.reg] = v - 1 /\ ptr = i.then
                ELSE registers[i.reg] = 0 /\ ptr = i.els
    /\ (StepCalled /\ prev.op = "step" /\ Current(prev.pre).op = "Decrement"
          /\ Current(pre) = Current(prev.pre)
          /\ prev.pre.registers[Current(pre).reg] = 0) =>
         /\ pre.ptr = Current(pre).els
         /\ ptr = Current(pre).els
         /\ registers[Current(pre).reg] = 0

\* two Decrements in a row on a zero register, and a Decrement of a positive one
C1_Witness ==
    /\ StepCalled /\ prev.op = "step"
    /\ Current(pre).op = "Decrement" /\ Current(prev.pre) = Current(pre)
    /\ prev.pre.registers[Current(pre).reg] = 0
    /\ registers[Current(pre).reg] = 0

\* C2: a step on Increment(r, target) sets register r to (old value + 1) modulo
\* 2^WordBits and the program counter to target, and completes without a panic,
\* also when the register holds the maximum value.
C2_IncrementWraps ==
    (StepCalled /\ Current(pre).op = "Increment") =>
        LET i == Current(pre) IN
        /\ panic = "none"
        /\ registers[i.reg] = (pre.registers[i.reg] + 1) % Modulus
        /\ ptr = i.then

\* C5: a step on a Purged slot panics with the message of unreachable!: the call
\* does not return, nothing can be called afterwards, and the machine is not
\* halted; a run that reaches a Purged slot within its budget never returns.
C5_PurgedIsFatal ==
    /\ (StepCalled /\ Current(pre) = Purged) =>
         /\ panic = "Reached purged instruction"
         /\ ~ Halted(Machine)
         /\ ~ ENABLED Next
    /\ (panic = "Reached purged instruction") =>
         /\ Current(Machine) = Purged
         /\ op \in {"step", "run"}
         /\ op = "run" => pc = "run"
         /\ ~ ENABLED Next
    /\ (pc = "idle" /\ op = "run") => panic = "none"

\* a step on a Purged slot has panicked
C5_Witness == StepCalled /\ Current(pre) = Purged /\ panic # "none"

\* C6: a step on Halt changes nothing: the program counter, the registers and
\* the instructions are those on entry, also when step is called again.
C6_HaltIsNoOp ==
    /\ (StepCalled /\ Halted(pre)) => (Machine = pre /\ panic = "none")
    /\ (StepCalled /\ prev.op = "step" /\ Halted(prev.pre)) =>
         (Machine = prev.pre /\ pre = prev.pre /\ panic = "none")

\* step called twice on a halted machine
C6_Witness == StepCalled /\ prev.op = "step" /\ Halted(prev.pre) /\ calls >= 2

----------------------------------------------------------------------------
(* Properties of run *)

\* k calls of step in a row; a panic ends them
RECURSIVE Iter(_, _, _)
Iter(m, k, checks) ==
    IF k = 0
    THEN Outcome(m, "none")
    ELSE LET o == Iter(m, k - 1, checks) IN
         IF o.panic # "none" THEN o ELSE StepResult(o.machine, checks)

\* the numbers k <= n of step transitions after which the instruction at the
\* program counter is Halt
HaltsAfter(m, n, checks) ==
    {k \in 0 .. n : LET o == Iter(m, k, checks) IN
                    o.panic = "none" /\ Current(o.machine).op = "Halt"}

\* K: the number of step transitions until the instruction at the program counter
\* is first Halt, when that is at most n; n + 1 stands for every larger K
StepsToHalt(m, n, checks) ==
    LET H == HaltsAfter(m, n, checks) IN
    IF H = {} THEN n + 1 ELSE CHOOSE k \in H : \A j \in H : k <= j

Min(a, b) == IF a <= b THEN a ELSE b

\* a call of run has returned: `pre` is the machine it was called on
RunReturned == op = "run" /\ pc = "idle"
\* a call of run has ended in a panic
RunAborted == op = "run" /\ panic # "none"

\* C3 as stated: every call of run returns min(max_steps, K), after exactly that
\* many step transitions, whatever the machine it is called on.
C3_RunAlwaysReturns ==
    (RunReturned \/ RunAborted) =>
        LET K == StepsToHalt(pre, max_steps, overflow_checks) IN
        /\ RunReturned
        /\ ret = Min(max_steps, K)
        /\ nsteps = ret

\* C3, amended: a call of run that returns has returned min(max_steps, K) after
\* exactly that many step transitions, none of which panicked, and max_steps
\* when Halt is not reached within the budget; a call that does not return has
\* panicked in one of its first min(max_steps, K) step transitions.
C3_RunReturnsMinBudgetK ==
    /\ RunReturned =>
         LET K == StepsToHalt(pre, max_steps, overflow_checks)
             o == Iter(pre, ret, overflow_checks)
         IN  /\ ret = Min(max_steps, K)
             /\ nsteps = ret
             /\ K > max_steps => ret = max_steps
             /\ o.panic = "none" /\ Machine = o.machine
    /\ RunAborted =>
         LET K == StepsToHalt(pre, max_steps, overflow_checks) IN
         /\ pc = "run"
         /\ nsteps >= 1 /\ nsteps <= Min(max_steps, K)
         /\ Iter(pre, nsteps - 1, overflow_checks) = Outcome(Machine, "none")
         /\ Iter(pre, nsteps, overflow_checks) = Outcome(Machine, panic)

\* a run that stopped at Halt before its budget was spent, after at least two steps
C3_Witness ==
    /\ RunReturned /\ ret >= 2 /\ ret < max_steps
    /\ Halted(Machine) /\ ~ Halted(pre)

\* C4: when the program halts after exactly K transitions, run(N) with N >= K
\* returns K and leaves the machine halted; run(N) with N < K returns N and
\* leaves it not halted, and a following run(M) with M >= K - N returns K - N,
\* the two counts sum to K, and the registers and the program counter are those
\* a single run(N + M) leaves from the first state.
C4_RunBudgetAccounting ==
    /\ RunReturned =>
         LET K == StepsToHalt(pre, max_steps, overflow_checks) IN
         /\ K <= max_steps => (ret = K /\ Halted(Machine))
    /\ (RunReturned /\ prev.op = "run") =>
         LET N == prev.max_steps
             M == max_steps
             K == StepsToHalt(prev.pre, N + M, overflow_checks)
             single == RunFrom(prev.pre, 0, N + M, overflow_checks)
         IN  (K <= N + M) =>
               /\ N >= K => (prev.ret = K /\ Halted(pre))
               /\ N < K =>
                    /\ prev.ret = N /\ ~ Halted(pre)
                    /\ ret = K - N
                    /\ prev.ret + ret = K
                    /\ single.done /\ single.ret = K
                    /\ Machine = single.machine

\* a run that spent its budget before Halt, resumed by a run that reaches Halt
C4_Witness ==
    /\ RunReturned /\ prev.op = "run"
    /\ prev.ret = prev.max_steps /\ prev.ret >= 1 /\ ~ Halted(pre)
    /\ ret >= 1 /\ Halted(Machine)
    /\ registers # prev.pre.registers

----------------------------------------------------------------------------
(* Properties of the programs of the tests *)

\* run was called on the machine new(program) with $0 = a, $1 = b for some a, b
CalledOn(program) ==
    /\ op = "run"
    /\ pre.ptr = 0
    /\ pre.instructions = [i \in Slots |-> IF i < Len(program) THEN program[i + 1] ELSE Halt]
    /\ \A r \in Regs \ {0, 1} : pre.registers[r] = 0

Max(a, b) == IF a >= b THEN a ELSE b

\* C7: the subtraction program, started with $0 = a and $1 = b and run with the
\* unbounded budget, halts: it returns 5 * b + 2 with $0 = max(a - b, 0),
\* $1 = b and $2 = 0; for a = 98 and b = 81 that is 407 steps, $0 = 17, $1 = 81.
C7_Subtract ==
    (CalledOn(Subtract) /\ max_steps = MaxWord) =>
        LET a == pre.registers[0]
            b == pre.registers[1]
        IN  /\ panic = "none"
            /\ nsteps <= 5 * b + 2
            /\ pc = "idle" =>
                 /\ ret = 5 * b + 2
                 /\ Halted(Machine)
                 /\ registers[0] = Max(a - b, 0)
                 /\ registers[1] = b
                 /\ registers[2] = 0
            /\ (pc = "idle" /\ a = 98 /\ b = 81) =>
                 (ret = 407 /\ registers[0] = 17 /\ registers[1] = 81)

\* the run of tests::substract has returned
C7_Witness ==
    /\ CalledOn(Subtract) /\ max_steps = MaxWord /\ pc = "idle"
    /\ pre.registers[0] = 98 /\ pre.registers[1] = 81
    /\ ret = 407

\* C8: the addition program, started with $0 = a and $1 = b (a + b below the
\* modulus) and run with the unbounded budget, halts: it returns 5 * b + 2 with
\* $0 = a + b, $1 = b and $2 = 0; for a = 98 and b = 81 that is 407 steps,
\* $0 = 179, $1 = 81.
C8_Add ==
    (CalledOn(Add) /\ max_steps = MaxWord
       /\ pre.registers[0] + pre.registers[1] < Modulus) =>
        LET a == pre.registers[0]
            b == pre.registers[1]
        IN  /\ panic = "none"
            /\ nsteps <= 5 * b + 2
            /\ pc = "idle" =>
                 /\ ret = 5 * b + 2
                 /\ Halted(Machine)
                 /\ registers[0] = a + b
                 /\ registers[1] = b
                 /\ registers[2] = 0
            /\ (pc = "idle" /\ a = 98 /\ b = 81) =>
                 (ret = 407 /\ registers[0] = 179 /\ registers[1] = 81)

\* the run of tests::add has returned
C8_Witness ==
    /\ CalledOn(Add) /\ max_steps = MaxWord /\ pc = "idle"
    /\ pre.registers[0] = 98 /\ pre.registers[1] = 81
    /\ ret = 407

\* C9: the multiplication program, started with $0 = a and $1 = b (a * b below
\* the modulus) and run with a budget of at least 3ab + 5b + 2a + 3, halts after
\* exactly that many steps with $0 = a * b, $1 = b and $2 = 0; for a = 98,
\* b = 81 and a budget of 100000 it returns 24418 with $0 = 7938, $1 = 81.
C9_Multiply ==
    (CalledOn(Multiply)
       /\ pre.registers[0] * pre.registers[1] < Modulus
       /\ max_steps >= 3 * pre.registers[0] * pre.registers[1]
                         + 5 * pre.registers[1] + 2 * pre.registers[0] + 3) =>
        LET a == pre.registers[0]
            b == pre.registers[1]
            n == 3 * a * b + 5 * b + 2 * a + 3
        IN  /\ panic = "none"
            /\ nsteps <= n
            /\ pc = "idle" =>
                 /\ ret = n
                 /\ Halted(Machine)
                 /\ registers[0] = a * b
                 /\ registers[1] = b
                 /\ registers[2] = 0
            /\ (pc = "idle" /\ a = 98 /\ b = 81 /\ max_steps = 100000) =>
                 (ret = 24418 /\ registers[0] = 7938 /\ registers[1] = 81)

\* the run of tests::multiply has returned
C9_Witness ==
    /\ CalledOn(Multiply) /\ max_steps = 100000 /\ pc = "idle"
    /\ pre.registers[0] = 98 /\ pre.registers[1] = 81
    /\ ret = 24418

\* the machine is as empty() makes it: every slot Halt, every register 0, ptr 0
IsEmpty(m) ==
    /\ m.ptr = 0
    /\ \A r \in Regs : m.registers[r] = 0
    /\ \A i \in Slots : m.instructions[i] = Halt

\* C10: empty() is a machine with every slot Halt, program counter 0 and every
\* register 0; run on it with any budget >= 1, the largest included, calls step
\* not once, returns 0 and leaves the registers and the program counter at 0.
C10_EmptyHaltsAtOnce ==
    /\ IsEmpty(empty)
    /\ (op = "run" /\ IsEmpty(pre) /\ max_steps >= 1) =>
         /\ panic = "none"
         /\ nsteps = 0
         /\ Machine = pre
         /\ pc = "idle" => ret = 0

\* tests::halt: the run of the empty machine with the largest budget has returned
C10_Witness ==
    /\ calls = 1 /\ RunReturned /\ IsEmpty(pre) /\ max_steps = MaxWord
    /\ ret = 0

----------------------------------------------------------------------------
(* Properties of construction and of the register bank *)

\* C11: the machine made from a sequence of length L has program counter 0 and
\* every register 0; slot i holds the i-th supplied instruction for every
\* i < min(L, NumSlots) and Halt for every i >= L; the instructions beyond the
\* store are dropped without a panic, so the machine is the one made from the
\* first NumSlots instructions alone.
C11_NewTruncatesAndPads ==
    /\ \A i \in Slots :
         instructions[i] = IF i < Len(supplied) THEN supplied[i + 1] ELSE Halt
    /\ op = "new" =>
         /\ ptr = 0
         /\ \A r \in Regs : registers[r] = 0
         /\ panic = "none"
         /\ Machine = new(SubSeq(supplied, 1, Min(Len(supplied), NumSlots)))

\* a machine made from more instructions than the store holds
C11_Witness ==
    /\ op = "new"
    /\ Len(supplied) > NumSlots
    /\ supplied[NumSlots + 1] # Halt
    /\ instructions[NumSlots - 1] = supplied[NumSlots]
    /\ instructions[NumSlots - 1] # Halt

\* C12: set_register(i, v) makes register i hold v, so that get_register(i)
\* returns v, and leaves every other register, the instructions and the program
\* counter as they were; get_register returns the register and changes nothing;
\* neither panics, for any index.
C12_SetAndGetRegister ==
    /\ op = "set_register" =>
         /\ panic = "none" /\ pc = "idle"
         /\ registers[args[1]] = args[2]
         /\ \A r \in Regs \ {args[1]} : registers[r] = pre.registers[r]
         /\ instructions = pre.instructions
         /\ ptr = pre.ptr
    /\ op = "get_register" =>
         /\ panic = "none" /\ pc = "idle"
         /\ ret = pre.registers[args[1]]
         /\ Machine = pre
    /\ (op = "get_register" /\ prev.op = "set_register" /\ prev.args[1] = args[1]) =>
         ret = prev.args[2]
    /\ (Idle /\ calls < MaxCalls) =>
         \A r \in Regs : ENABLED SetRegister(r, MaxWord) /\ ENABLED GetRegister(r)

\* the last register set to the largest value and read back
C12_Witness ==
    /\ op = "get_register" /\ prev.op = "set_register"
    /\ args[1] = NumRegs - 1 /\ prev.args = <<NumRegs - 1, MaxWord>>
    /\ ret = MaxWord /\ prev.pre.registers[NumRegs - 1] = 0

\* C14: in every state reached from Program::new by set_register, step and run
\* the program counter is a slot of the instruction store, and the register and
\* the jump targets of every instruction are a register of the bank and slots of
\* the store: no step reads or writes out of range.
C14_IndicesInRange ==
    /\ ptr \in Slots
    /\ DOMAIN instructions = Slots
    /\ DOMAIN registers = Regs
    /\ \A i \in Slots :
         /\ instructions[i].reg \in Regs
         /\ instructions[i].then \in Slots
         /\ instructions[i].els \in Slots
    /\ Current(Machine).reg \in DOMAIN registers
    /\ \A r \in Regs : registers[r] \in Words

\* a jump to the last slot, taken by an Increment of the last register
C14_Witness ==
    /\ op \in {"step", "run"} /\ calls >= 2
    /\ ptr = NumSlots - 1
    /\ Current(pre) = Increment(NumRegs - 1, NumSlots - 1)
    /\ Current(Machine) # Halt
    /\ registers[NumRegs - 1] # pre.registers[NumRegs - 1]

----------------------------------------------------------------------------
(* Frame and absorption *)

\* the transition is a call of set_register
SetRegisterTaken == op' = "set_register" /\ calls' = calls + 1
\* the transition executes step(): a call of step, or a pass of run's loop that steps
StepTaken == (op' = "step" /\ calls' = calls + 1) \/ (pc = "run" /\ nsteps' = nsteps + 1)

\* C15: a step changes at most one register, the one named by the instruction at
\* the program counter, and none on Halt, on a Decrement of a zero register or
\* on a panic; outside set_register no register changes but by a step, and no
\* transition of step or run changes an instruction slot.
C15_StepChangesOneRegister ==
    [][ /\ instructions' = instructions
        /\ ~ SetRegisterTaken =>
             \A r \in Regs :
                 registers'[r] # registers[r] =>
                     /\ StepTaken
                     /\ panic' = "none"
                     /\ Current(Machine).op \in {"Increment", "Decrement"}
                     /\ r = Current(Machine).reg
                     /\ Current(Machine).op = "Decrement" => registers[r] > 0
      ]_vars

\* a run has stepped an Increment of register 1 and then a Decrement of register 0
\* that found it zero: only register 1 has changed
C15_Witness ==
    /\ RunReturned /\ ret >= 2
    /\ registers[1] # pre.registers[1]
    /\ registers[0] = pre.registers[0] /\ registers[0] = 0
    /\ Current(pre) = Increment(1, 1)
    /\ pre.instructions[1].op = "Decrement" /\ pre.instructions[1].reg = 0

\* the slots the program counter can come to from the slots S by jumps alone
RECURSIVE Reachable(_, _)
Reachable(m, S) ==
    LET jumps == {m.instructions[i].then : i \in {j \in S : m.instructions[j].op \in {"Increment", "Decrement"}}}
                   \cup {m.instructions[i].els : i \in {j \in S : m.instructions[j].op = "Decrement"}}
    IN  IF jumps \subseteq S THEN S ELSE Reachable(m, S \cup jumps)

\* a true infinite loop: no jump from the program counter leads to Halt or to Purged
LoopsForever(m) ==
    \A i \in Reachable(m, {m.ptr}) : m.instructions[i].op \in {"Increment", "Decrement"}

\* C16: a run that does not step a Purged slot does not panic and performs at
\* most max_steps step transitions; on a program whose jumps never lead to Halt
\* it returns exactly max_steps, after max_steps transitions, for every budget.
C16_RunStopsAtBudget ==
    /\ (op = "run" /\ panic # "Reached purged instruction") =>
         /\ panic = "none"
         /\ nsteps <= max_steps /\ step <= max_steps
    /\ (op = "run" /\ LoopsForever(pre)) =>
         /\ panic = "none"
         /\ pc = "idle" => (ret = max_steps /\ nsteps = max_steps)

\* C17: once the instruction at the program counter is Halt, no call of step,
\* run or set_register moves the program counter or makes the machine running
\* again or panics; the registers change only in set_register; and every run
\* called on the halted machine returns 0 without a step.
C17_HaltedIsAbsorbing ==
    [][ /\ Halted(Machine) =>
             /\ ptr' = ptr
             /\ Halted(Machine')
             /\ panic' = "none"
             /\ ~ SetRegisterTaken => registers' = registers
        /\ (pc = "run" /\ pc' = "idle" /\ Halted(pre)) =>
             (ret' = 0 /\ nsteps' = 0 /\ Machine' = pre)
      ]_vars

\* a machine that a call brought to a Halt beyond slot 0, and a run of it that returned 0
C17_Witness ==
    /\ RunReturned /\ max_steps >= 1 /\ ret = 0
    /\ Halted(pre) /\ pre.ptr # 0
    /\ prev.op \in {"step", "run"} /\ ~ Halted(prev.pre)

----------------------------------------------------------------------------
(* run against step *)

\* a call of run has ended: it has returned or panicked
RunEnded == RunReturned \/ RunAborted

\* C18: when no Purged slot is reached within N transitions, the registers and
\* the program counter after run(N) are those after N calls of step from the
\* same state (and a panic of the one is the panic of the other); a call of step
\* is one such transition.
C18_RunEqualsSteps ==
    /\ RunEnded =>
         LET o == Iter(pre, max_steps, overflow_checks) IN
         o.panic # "Reached purged instruction" =>
             (Machine = o.machine /\ panic = o.panic)
    /\ StepCalled => Outcome(Machine, panic) = Iter(pre, 1, overflow_checks)
    /\ (StepCalled /\ prev.op = "step") =>
         Outcome(Machine, panic) = Iter(prev.pre, 2, overflow_checks)

\* a run that returned at Halt with budget left: the remaining steps are steps on Halt
C18_Witness ==
    /\ RunReturned /\ ret >= 1 /\ ret < max_steps
    /\ registers # pre.registers
    /\ Machine = Iter(pre, max_steps, overflow_checks).machine

\* execution from m comes to a Purged slot after fewer than n transitions,
\* without a panic and without reaching Halt before
LandsOnPurged(m, n, checks) ==
    \E k \in 0 .. (n - 1) :
        /\ LET o == Iter(m, k, checks) IN
           o.panic = "none" /\ Current(o.machine) = Purged
        /\ \A j \in 0 .. (k - 1) :
             LET o == Iter(m, j, checks) IN
             o.panic = "none" /\ ~ Halted(o.machine)

\* C19: a call of run ends in the panic of a Purged slot exactly when execution
\* comes to a Purged slot after fewer than max_steps transitions without
\* reaching Halt first; it then returns no count and the machine is not halted;
\* run(0) returns 0 and changes nothing in every state, a Purged slot at the
\* program counter included; and a run whose budget is spent on arrival at a
\* Purged slot returns max_steps.
C19_RunFailsOnlyAtPurged ==
    /\ RunEnded =>
         (panic = "Reached purged instruction"
            <=> LandsOnPurged(pre, max_steps, overflow_checks))
    /\ (op = "run" /\ panic = "Reached purged instruction") =>
         /\ pc = "run"
         /\ Current(Machine) = Purged /\ ~ Halted(Machine)
    /\ (RunEnded /\ max_steps = 0) =>
         (RunReturned /\ ret = 0 /\ nsteps = 0 /\ Machine = pre)
    /\ (RunEnded /\ ~ LandsOnPurged(pre, max_steps, overflow_checks)
          /\ Iter(pre, max_steps, overflow_checks).panic = "none"
          /\ Current(Iter(pre, max_steps, overflow_checks).machine) = Purged) =>
         (RunReturned /\ ret = max_steps /\ Current(Machine) = Purged)

\* a run whose budget was spent on arrival at a Purged slot: it returned max_steps
C19_Witness ==
    /\ RunReturned /\ ret = max_steps /\ max_steps >= 2
    /\ Current(Machine) = Purged /\ Current(pre) # Purged

====
